---- MODULE Spec2Model ----
(***************************************************************************)
(* Gameplay core of src/main.js: the shared state record, the enemy       *)
(* collection, the weapon (shoot / reload), player damage and respawn,    *)
(* the spawner and its wave timer, and the per-frame enemy update.        *)
(*                                                                         *)
(* Time is in whole milliseconds.  The code reads the page clock          *)
(* performance.now() only through differences, so the model keeps the     *)
(* differences: shotAge is now - state.lastShot (kept up to               *)
(* shootCooldown, beyond which shoot() no longer tells values apart),     *)
(* frameAge is now - prevTime, and a pending setTimeout / setInterval     *)
(* callback carries the time left until it is due.  The clock never runs  *)
(* past a due callback.  Enemy cooldowns, which the code keeps in         *)
(* seconds, are kept in milliseconds.  Positions are in ten-thousandths   *)
(* of a world unit and velocities in thousandths of a unit per second;    *)
(* the clock moves in multiples of 10 ms, which keeps velocity * delta    *)
(* exact.                                                                  *)
(***************************************************************************)
EXTENDS Integers, Sequences, FiniteSets

VARIABLES
    shotAge,            \* performance.now() - state.lastShot, up to shootCooldown
    frameAge,           \* performance.now() - prevTime
    hp,                 \* state.hp
    ammo,               \* state.ammo
    reserveAmmo,        \* state.reserveAmmo
    reloading,          \* state.reloading
    kills,              \* state.kills
    enemies,            \* state.enemies, a sequence of enemy records
    epoch,              \* resetGame() calls so far
    nextMesh,           \* enemy meshes created since the last resetGame()
    timeouts,           \* pending setTimeout callbacks, in the order they were set
    intervals,          \* active setInterval timers
    waveIntervalHandle, \* waveIntervalHandle, 0 for null
    nextHandle,         \* interval handles handed out so far
    used,               \* inputs the environment has made so far
    last,               \* the handler that ran last and its outcome
    player,             \* playerObj.position, state.velocity, state.onGround
    camera,             \* camera.position and camera.rotation (yaw, pitch)
    isLocked,           \* controls.isLocked
    allowMouseDragFallback, \* allowMouseDragFallback
    raf,                \* pending requestAnimationFrame(animate) callbacks
    tick,               \* the steps the last run of animate() went through
    effects             \* enemy looks and the pending effect reversions

vars == << shotAge, frameAge, hp, ammo, reserveAmmo, reloading, kills, enemies,
           epoch, nextMesh, timeouts, intervals, waveIntervalHandle, nextHandle,
           used, last, player, camera, isLocked, allowMouseDragFallback, raf,
           tick, effects >>

\* the player's body and the camera
bodyVars == << player, camera >>

\* look control and the animation loop
loopVars == << isLocked, allowMouseDragFallback, raf, tick >>

----------------------------------------------------------------------------
(* Program constants *)

maxHp == 100
maxAmmo == 30
InitialReserveAmmo == 90
shootCooldown == 100
PLAYER_ATTACK_DAMAGE == 10
INITIAL_ENEMY_COUNT == 30
MAX_ENEMIES == 120
WAVE_SIZE == 6
WAVE_INTERVAL_MS == 10000
EnemyHp == 100
ShotDamage == 50
ReloadDelay == 800
RespawnDelay == 2000
LockCheckDelay == 200
GRAVITY == 30
JumpVelocity == 15000
CameraOffsetY == 16000
RespawnLift == 1000
SPAWN_EXCLUSION == 500000
ENEMY_BASE_SPEED == 6000
PLAYER_RADIUS == 6000
ENEMY_RADIUS == 8000
ENEMY_MIN_DISTANCE_BUFFER == 1500
NearlyZero == 10
SeparationSlack == 500

(* Bounds of the model *)

MaxShots == 4           \* shots the player gets off
MaxReloadKeys == 1      \* presses of the reload key
MaxStarts == 1          \* start requests (tryLock)
MaxRaids == 1           \* frames in which some enemy is in melee range
MaxAim == 1             \* the ray can reach the first MaxAim enemies
MaxDeaths == 1          \* deaths of the player under siege
MaxPlay == 3000         \* milliseconds of play that are followed frame by frame
MaxMelee == 11          \* at most this many enemies are in melee range in a frame

AttackRates == {1000}   \* 1.0 + Math.random() * 0.8 seconds, sampled
Parts == {"body", "head", "eye", "arm", "leg"}   \* sub-meshes of an enemy group

Min(a, b) == IF a < b THEN a ELSE b
Max(a, b) == IF a > b THEN a ELSE b

Abs(v) == IF v < 0 THEN -v ELSE v

----------------------------------------------------------------------------
(* Terrain *)

\* getTerrainHeight(x, z), rounded to a ten-thousandth, at the places the
\* player is taken to, (0, 0), (0, -0.25) and (100, 0), and at the places
\* the spawner samples and puts enemies
getTerrainHeight(x, z) ==
    CASE x = 0 /\ z = 0 -> 120000
      [] x = 0 /\ z = -2500 -> 119998
      [] x = 1000000 /\ z = 0 -> 184969
      [] x = 2000000 /\ z = 0 -> 200049
      [] x = 300000 /\ z = -200000 -> 158315
      [] x = 500000 /\ z = 0 -> 179912
      [] x = 500000 /\ z = -2499999 -> -246
      [] x = -2499999 /\ z = 500000 -> 13215

----------------------------------------------------------------------------
(* Spawner *)

\* the identity of an enemy's mesh group: the n-th created after reset number gen
Mesh(gen, n) == [gen |-> gen, n |-> n]
NoMesh == Mesh(0, 0)

\* what spawnEnemies draws with Math.random() for an enemy: the sampled place
\* (x, z), the distances px and pz beyond the edge of the exclusion zone, the
\* signs cx and cz taken for a coordinate that is 0, and the extra speed
DefaultDraw ==
    [x |-> 2000000, z |-> 0, px |-> 0, pz |-> 0, cx |-> 1, cz |-> 1, boost |-> 0]

Draws ==
    { DefaultDraw,
      [x |-> 1000000, z |-> 0, px |-> 0, pz |-> 0, cx |-> 1, cz |-> 1, boost |-> 0],
      [x |-> 500000, z |-> 0, px |-> 0, pz |-> 0, cx |-> 1, cz |-> 1, boost |-> 0],
      [x |-> 300000, z |-> -200000, px |-> 0, pz |-> 1999999, cx |-> 1, cz |-> 1,
       boost |-> 0],
      [x |-> 0, z |-> 0, px |-> 1999999, pz |-> 0, cx |-> -1, cz |-> 1, boost |-> 0] }

\* Math.sign(v) || (Math.random() < 0.5 ? -1 : 1)
SignOr(v, coin) == IF v > 0 THEN 1 ELSE IF v < 0 THEN -1 ELSE coin

\* mutant: a sample inside the exclusion zone is left where it is
PlacedUnpushed(d) ==
    [sx |-> d.x, sz |-> d.z, x |-> d.x, y |-> getTerrainHeight(d.x, d.z), z |-> d.z]

\* the place of a new enemy: y is taken at the sampled place, then a sample
\* inside the exclusion zone is pushed out; sx and sz keep the sample
\*   const y = getTerrainHeight(x, z);
\*   if (Math.abs(x) < 50 && Math.abs(z) < 50) {
\*     x = signX * (50 + Math.random() * 200); z = signZ * (50 + Math.random() * 200); }
\*   enemyGroup.position.set(x, y, z);
Placed(d) ==
    LET y == getTerrainHeight(d.x, d.z)
        inside == Abs(d.x) < SPAWN_EXCLUSION /\ Abs(d.z) < SPAWN_EXCLUSION
    IN  [sx |-> d.x, sz |-> d.z,
         x |-> IF inside THEN SignOr(d.x, d.cx) * (SPAWN_EXCLUSION + d.px) ELSE d.x,
         y |-> y,
         z |-> IF inside THEN SignOr(d.z, d.cz) * (SPAWN_EXCLUSION + d.pz) ELSE d.z]

\* the record pushed by spawnEnemies for the mesh group `m`; `spawn` is where
\* the group was put (where the enemy goes from there is not followed: which
\* enemies are in melee range is an input of each frame); sinceAttack is
\* history, the delta the enemy has been handed since its last attack, counted
\* up to attackRate, where an enemy that has not attacked starts
NewEnemy(m, rate, d) ==
    [mesh |-> m, hp |-> EnemyHp, attackCooldown |-> 0, attackRate |-> rate,
     speed |-> ENEMY_BASE_SPEED + d.boost, spawn |-> Placed(d),
     sinceAttack |-> rate]

\* mutant: the cap is not applied
ToSpawnUncapped(es, count) == count

\* mutant: the cap is applied one enemy early
ToSpawnOffByOne(es, count) == Min(count, Max(0, MAX_ENEMIES - 1 - Len(es)))

\* const canSpawn = Math.max(0, MAX_ENEMIES - state.enemies.length);
\* const toSpawn = Math.min(count, canSpawn);
ToSpawn(es, count) == Min(count, Max(0, MAX_ENEMIES - Len(es)))

\* spawnEnemies(count): the collection after the call; the meshes created are
\* numbers first + 1 .. first + toSpawn of generation gen, rates[i] is the
\* attack interval of the i-th, and d is what is drawn for each of them
SpawnEnemies(es, count, gen, first, rates, d) ==
    es \o [i \in 1..ToSpawn(es, count) |-> NewEnemy(Mesh(gen, first + i), rates[i], d)]

RateChoices(es, count) == [1..ToSpawn(es, count) -> AttackRates]

----------------------------------------------------------------------------
(* Timers *)

\* mutant: the callback is due after half the delay
TimeoutHalved(kind, delay) == [kind |-> kind, in |-> delay \div 2]

\* setTimeout(callback, delay): the pending callback
Timeout(kind, delay) == [kind |-> kind, in |-> delay]

IsReloadTimer(t) == t.kind = "reload"
IsRespawnTimer(t) == t.kind = "respawn"
NotReloadTimer(t) == ~IsReloadTimer(t)
NotRespawnTimer(t) == ~IsRespawnTimer(t)

\* mutant: a reset cancels the reload in flight
KeptByResetButReloads(tos) == SelectSeq(tos, NotReloadTimer)

\* mutant: a reset cancels the pending death-respawns
KeptByResetButRespawns(tos) == SelectSeq(tos, NotRespawnTimer)

\* the pending timeouts after resetGame(): it calls clearTimeout on none
KeptByReset(tos) == tos

\* the delays after which a pending callback is due
DueIn == {timeouts[i].in : i \in 1..Len(timeouts)} \cup {t.in : t \in intervals}

\* mutant: the previous wave timer is not cleared
StartWaveSpawnerKeepsOld(ints, old, h) ==
    ints \cup {[id |-> h, in |-> WAVE_INTERVAL_MS]}

\* mutant: the new wave timer first fires after half the interval
StartWaveSpawnerEarly(ints, old, h) ==
    {x \in ints : old = 0 \/ x.id # old} \cup {[id |-> h, in |-> WAVE_INTERVAL_MS \div 2]}

\* startWaveSpawner(): the active intervals after the call; `h` is the new handle
\*   if (waveIntervalHandle) clearInterval(waveIntervalHandle);
\*   waveIntervalHandle = setInterval(..., WAVE_INTERVAL_MS);
StartWaveSpawner(ints, old, h) ==
    {x \in ints : old = 0 \/ x.id # old} \cup {[id |-> h, in |-> WAVE_INTERVAL_MS]}

----------------------------------------------------------------------------
(* Player body *)

\* playerObj as createPlayer() leaves it, state.velocity and state.onGround as
\* the state initialiser leaves them
InitPlayer ==
    [x |-> 0, y |-> 0, z |-> 0, vx |-> 0, vy |-> 0, vz |-> 0, onGround |-> FALSE]

Position(p) == [x |-> p.x, y |-> p.y, z |-> p.z]

\* no position: the enemy update did not run
Nowhere == [x |-> 0, y |-> -1, z |-> 0]

\* state.velocity.x -= state.velocity.x * 10.0 * delta, and the same for z;
\* exact for velocities that are multiples of 10 and delta a multiple of 10 ms
Damped(v, delta) == v - (v \div 10) * (delta \div 10)

\* sampled horizontal outcomes of a movement tick with a movement key held:
\* the place reached and the velocity kept
Strides ==
    { [x |-> 0, z |-> -2500, vx |-> 0, vz |-> -2500],
      [x |-> 1000000, z |-> 0, vx |-> -4500, vz |-> 0] }

\* the horizontal outcome of a movement tick with no movement key held: the
\* velocity is damped; a player without horizontal velocity stays where it
\* is, a sliding player comes to one of the sampled places
Glide(p, delta) ==
    LET vx1 == Damped(p.vx, delta)
        vz1 == Damped(p.vz, delta)
    IN  IF vx1 = 0 /\ vz1 = 0
        THEN {[x |-> p.x, z |-> p.z, vx |-> 0, vz |-> 0]}
        ELSE {[x |-> s.x, z |-> s.z, vx |-> vx1, vz |-> vz1] : s \in Strides}

Horizontal(p, keys, delta) ==
    IF keys THEN Strides ELSE Glide(p, delta)

\* if ((!controls || !controls.isLocked) && !allowMouseDragFallback) return;
MoveActive(locked, fallback) == locked \/ fallback

\* updatePlayerMovement(delta) past its early return; `to` is the horizontal
\* outcome
UpdatePlayerMovement(p, delta, to) ==
    LET vy1 == p.vy - GRAVITY * delta
        y1 == p.y + (vy1 \div 10) * (delta \div 10)
        groundHeight == getTerrainHeight(to.x, to.z)
    IN  IF y1 < groundHeight
        THEN [x |-> to.x, y |-> groundHeight, z |-> to.z,
              vx |-> to.vx, vy |-> 0, vz |-> to.vz, onGround |-> TRUE]
        ELSE [x |-> to.x, y |-> y1, z |-> to.z,
              vx |-> to.vx, vy |-> vy1, vz |-> to.vz, onGround |-> FALSE]

\* case 'Space': if (pressed && state.onGround) state.velocity.y = 15;
Jumped(p) == IF p.onGround THEN [p EXCEPT !.vy = JumpVelocity] ELSE p

\* updateCamera(): camera.position.copy(playerObj.position).add(CONFIG.cameraOffset)
UpdateCamera(cam, p) == [cam EXCEPT !.x = p.x, !.y = p.y + CameraOffsetY, !.z = p.z]

\* mutant: the player is put on the ground, grounded
ResetPlayerOnGround ==
    [x |-> 0, y |-> getTerrainHeight(0, 0), z |-> 0,
     vx |-> 0, vy |-> 0, vz |-> 0, onGround |-> TRUE]

\* playerObj.position.set(0, ground + 0.1, 0); state.velocity.set(0, 0, 0);
\* state.onGround = false;
ResetPlayer ==
    [x |-> 0, y |-> getTerrainHeight(0, 0) + RespawnLift, z |-> 0,
     vx |-> 0, vy |-> 0, vz |-> 0, onGround |-> FALSE]

\* camera.rotation.set(0, 0, 0)
ResetLook(cam) == [cam EXCEPT !.yaw = 0, !.pitch = 0]

----------------------------------------------------------------------------
(* Looks and transient effects *)

\* the look of an enemy as spawnEnemies() builds it: the colour of
\* bodyMesh.material (line 303) and mesh.scale, in percent
BaseLook == [color |-> "8B0000", scale |-> 100]

\* how long the hit flash, the attack pulse and the attack tint last
HitFlashDelay == 140
AttackPulseDelay == 180
AttackTintDelay == 200

\* the looks of the live enemies that differ from BaseLook, and the pending
\* setTimeout callbacks that put a saved colour or scale back
NoEffects == [look |-> {}, pending |-> << >>]

\* the look of the enemy with mesh m
LookOf(fx, m) ==
    IF \E e \in fx.look : e.mesh = m
    THEN LET e == CHOOSE f \in fx.look : f.mesh = m
         IN  [color |-> e.color, scale |-> e.scale]
    ELSE BaseLook

\* the enemy with mesh m takes the look l
WithLook(fx, m, l) ==
    [fx EXCEPT !.look = {e \in @ : e.mesh # m} \cup
        (IF l = BaseLook THEN {}
         ELSE {[mesh |-> m, color |-> l.color, scale |-> l.scale]})]

\* setTimeout(() => { put the saved value back }, delay)
Later(fx, m, what, orig, delay) ==
    [fx EXCEPT !.pending = Append(@,
        [mesh |-> m, what |-> what, color |-> orig.color, scale |-> orig.scale,
         in |-> delay])]

\* mutant: the hit flash puts the base colour back, not the colour it found
HitFlashToBase(fx, m) ==
    LET l == LookOf(fx, m)
    IN  Later(WithLook(fx, m, [l EXCEPT !.color = "ffff66"]),
              m, "color", BaseLook, HitFlashDelay)

\* shoot(), lines 609-616: the body turns 0xffff66 and the colour found is
\* put back after 140 ms
\*   const orig = mat.color.getHex(); mat.color.setHex(0xffff66);
\*   setTimeout(() => { if (mat) mat.color.setHex(orig); }, 140);
HitFlash(fx, m) ==
    LET l == LookOf(fx, m)
    IN  Later(WithLook(fx, m, [l EXCEPT !.color = "ffff66"]),
              m, "color", l, HitFlashDelay)

\* updateEnemies(), lines 531-544: the mesh grows by 1.2 for 180 ms and the
\* body turns 0xff4444 for 200 ms, each putting back what it found
AttackFlash(fx, m) ==
    LET l == LookOf(fx, m)
        pulsed == [l EXCEPT !.scale = (@ * 12) \div 10, !.color = "ff4444"]
    IN  Later(Later(WithLook(fx, m, pulsed), m, "scale", l, AttackPulseDelay),
              m, "color", l, AttackTintDelay)

\* the pending callbacks on attribute `what` of mesh m that fall due within d
DueOn(fx, m, what, d) ==
    {i \in 1..Len(fx.pending) :
        /\ fx.pending[i].mesh = m
        /\ fx.pending[i].what = what
        /\ fx.pending[i].in <= d}

\* the callback of `due` that runs last: the latest due, and of those due at
\* the same time the one set last
LastOf(fx, due) ==
    CHOOSE i \in due : \A j \in due :
        \/ fx.pending[j].in < fx.pending[i].in
        \/ fx.pending[j].in = fx.pending[i].in /\ j <= i

\* the look of mesh m once the callbacks that fall due within d have run in
\* the order they fall due: each of them overwrites the colour or the scale,
\* so the last to run decides it
Reverted(fx, m, d) ==
    [color |-> IF DueOn(fx, m, "color", d) = {} THEN LookOf(fx, m).color
               ELSE fx.pending[LastOf(fx, DueOn(fx, m, "color", d))].color,
     scale |-> IF DueOn(fx, m, "scale", d) = {} THEN LookOf(fx, m).scale
               ELSE fx.pending[LastOf(fx, DueOn(fx, m, "scale", d))].scale]

\* d milliseconds pass: the callbacks that fall due have run, the others are
\* d closer
Passed(fx, d) ==
    LET StillPending(p) == p.in > d
        rest == SelectSeq(fx.pending, StillPending)
        meshes == {e.mesh : e \in fx.look} \cup
                  {fx.pending[i].mesh : i \in 1..Len(fx.pending)}
    IN  [look |-> {[mesh |-> m, color |-> Reverted(fx, m, d).color,
                    scale |-> Reverted(fx, m, d).scale] :
                        m \in {n \in meshes : Reverted(fx, n, d) # BaseLook}},
         pending |-> [i \in 1..Len(rest) |-> [rest[i] EXCEPT !.in = @ - d]]]

\* the looks and callbacks of the meshes that are still in state.enemies;
\* those of a removed mesh can no longer be seen
Kept(fx, meshes) ==
    LET Live(p) == p.mesh \in meshes
    IN  [look |-> {e \in fx.look : e.mesh \in meshes},
         pending |-> SelectSeq(fx.pending, Live)]

----------------------------------------------------------------------------
(* Reset *)

\* resetGame(): the player, hp, the enemy collection, the look direction and
\* the wave timer
ResetGame(rates, d) ==
    /\ player' = ResetPlayer
    /\ camera' = ResetLook(camera)
    /\ hp' = maxHp
    /\ epoch' = epoch + 1
    /\ enemies' = SpawnEnemies(<< >>, INITIAL_ENEMY_COUNT, epoch + 1, 0, rates, d)
    /\ nextMesh' = ToSpawn(<< >>, INITIAL_ENEMY_COUNT)
    /\ intervals' = StartWaveSpawner(intervals, waveIntervalHandle, nextHandle + 1)
    /\ waveIntervalHandle' = nextHandle + 1
    /\ nextHandle' = nextHandle + 1
    /\ effects' = NoEffects

----------------------------------------------------------------------------
(* Player damage *)

\* mutant: health is not floored at 0
ApplyDamageUnfloored(h, tos, amount) ==
    [hp |-> h - amount,
     tos |-> IF h - amount <= 0 THEN Append(tos, Timeout("respawn", RespawnDelay))
             ELSE tos]

\* mutant: the respawn is scheduled one attack before the player is dead
ApplyDamageRespawnsEarly(h, tos, amount) ==
    LET h1 == Max(0, h - amount)
    IN  [hp |-> h1,
         tos |-> IF h1 <= amount THEN Append(tos, Timeout("respawn", RespawnDelay))
                 ELSE tos]

\* applyDamageToPlayer(amount) on health h and pending timeouts tos
ApplyDamageToPlayer(h, tos, amount) ==
    LET h1 == Max(0, h - amount)
    IN  [hp |-> h1,
         tos |-> IF h1 <= 0 THEN Append(tos, Timeout("respawn", RespawnDelay))
                 ELSE tos]

\* n enemy attacks landing one after the other in one updateEnemies call
RECURSIVE ApplyAttacks(_, _, _)
ApplyAttacks(h, tos, n) ==
    IF n = 0 THEN [hp |-> h, tos |-> tos]
    ELSE LET r == ApplyDamageToPlayer(h, tos, PLAYER_ATTACK_DAMAGE)
         IN  ApplyAttacks(r.hp, r.tos, n - 1)

----------------------------------------------------------------------------
(* Enemy update *)

\* enemy.attackCooldown = Math.max(0, (enemy.attackCooldown || 0) - delta)
Decayed(e, delta) == Max(0, e.attackCooldown - delta)

\* the enemy lands an attack in this tick: in melee range, cooldown expired
Attacks(e, inMelee, delta) == inMelee /\ Decayed(e, delta) <= 0

\* mutant: the cooldown is left alone while the enemy is out of range
EnemyTickFrozenOutOfRange(e, inMelee, delta) ==
    [e EXCEPT !.attackCooldown =
        IF Attacks(e, inMelee, delta) THEN e.attackRate
        ELSE IF inMelee THEN Decayed(e, delta) ELSE e.attackCooldown,
              !.sinceAttack =
        IF Attacks(e, inMelee, delta) THEN 0 ELSE Min(e.attackRate, @ + delta)]

\* one enemy's cooldown after its pursuit/attack step
EnemyTick(e, inMelee, delta) ==
    [e EXCEPT !.attackCooldown =
        IF Attacks(e, inMelee, delta) THEN e.attackRate ELSE Decayed(e, delta),
              !.sinceAttack =
        IF Attacks(e, inMelee, delta) THEN 0 ELSE Min(e.attackRate, @ + delta)]

\* const minDist = (enemy.radius || ENEMY_RADIUS) + PLAYER_RADIUS + ENEMY_MIN_DISTANCE_BUFFER
minDist == ENEMY_RADIUS + PLAYER_RADIUS + ENEMY_MIN_DISTANCE_BUFFER

\* the distance between an enemy and playerPos after the enemy's pursuit step,
\* from the distance before it: beyond minDist the enemy goes speed * delta
\* along the line to the player, within minDist it is put on the line at
\* minDist, unless it is within 0.001 of the player
\*   if (dist > minDist) { dir.normalize(); position.addScaledVector(dir, enemy.speed * delta); }
\*   else { if (dist > 0.001) { position.copy(playerPos).addScaledVector(dir, -minDist); } ... }
Pursued(dist, speed, delta) ==
    IF dist > minDist THEN Abs(dist - (speed * delta) \div 100)
    ELSE IF dist > NearlyZero THEN minDist
    ELSE dist

\* the distance the first enemy is taken to be at when no distance is given:
\* on the threshold when it is in melee range, 200 units away when not
DefaultReach(k) == IF k > 0 THEN minDist ELSE 2000000

\* no pursuit: the enemy update did not run or found no enemy
NoChase == [from |-> -1, to |-> -1]

\* mutant: an enemy at exactly 0 health is kept
IsDeadBelowZero(e) == e.hp < 0

\* if (enemy.hp <= 0) { ... state.enemies.splice(i, 1); state.kills++; ... }
IsDead(e) == e.hp <= 0
Alive(e) == ~IsDead(e)

\* the enemies 1..k are within minDist of the player in this tick
InMelee(i, k) == i <= k

\* const min = (a.radius || ENEMY_RADIUS) + (b.radius || ENEMY_RADIUS) + 0.05,
\* in hundred-thousandths of a unit
separationMin == (ENEMY_RADIUS + ENEMY_RADIUS + SeparationSlack) * 10

\* diff.normalize() for enemies on one line: the direction from b to a
Sign(v) == IF v > 0 THEN 1 ELSE IF v < 0 THEN -1 ELSE 0

\* the inner loop body of the separation pass, lines 495-503, on the
\* positions ps of enemies that stand on one line (hundred-thousandths of a
\* unit along it), for the pair a = i, b = j
\*   if (dist > 0 && dist < min) {
\*     const push = diff.normalize().multiplyScalar((min - dist) * 0.5);
\*     a.mesh.position.add(push); b.mesh.position.sub(push); }
SeparatePair(ps, i, j) ==
    LET diff == ps[i] - ps[j]
        dist == Abs(diff)
        push == Sign(diff) * ((separationMin - dist) \div 2)
    IN  IF dist > 0 /\ dist < separationMin
        THEN [ps EXCEPT ![i] = @ + push, ![j] = @ - push]
        ELSE ps

\* the separation pass from the pair (i, j) on: for i, for j = i + 1 ..
RECURSIVE SeparateFrom(_, _, _)
SeparateFrom(ps, i, j) ==
    IF i > Len(ps) THEN ps
    ELSE IF j > Len(ps) THEN SeparateFrom(ps, i + 1, i + 2)
    ELSE SeparateFrom(SeparatePair(ps, i, j), i, j + 1)

\* the separation pass of updateEnemies, lines 492-506
Separated(ps) == SeparateFrom(ps, 1, 2)

\* no enemy positions are followed: the enemy update did not run, or the
\* frame was given none
NoHerd == << >>
NoSeparation == [from |-> NoHerd, to |-> NoHerd]

\* mutant: every removal is counted twice
UpdateEnemiesCountsTwice(es, h, tos, kl, k, delta) ==
    LET n == Len(es)
        ticked == [i \in 1..n |-> EnemyTick(es[i], InMelee(i, k), delta)]
        nAtt == Cardinality({i \in 1..Min(n, k) : Attacks(es[i], InMelee(i, k), delta)})
        dmg == ApplyAttacks(h, tos, nAtt)
        kept == SelectSeq(ticked, Alive)
    IN  [es |-> kept, hp |-> dmg.hp, tos |-> dmg.tos,
         kills |-> kl + 2 * (n - Len(kept)), attacks |-> nAtt]

\* mutant: the dead are removed before the enemies take their step
UpdateEnemiesDeadFirst(es, h, tos, kl, k, delta) ==
    LET n == Len(es)
        ticked == [i \in 1..n |-> EnemyTick(es[i], InMelee(i, k) /\ Alive(es[i]), delta)]
        nAtt == Cardinality({i \in 1..Min(n, k) :
                                Alive(es[i]) /\ Attacks(es[i], InMelee(i, k), delta)})
        dmg == ApplyAttacks(h, tos, nAtt)
        kept == SelectSeq(ticked, Alive)
    IN  [es |-> kept, hp |-> dmg.hp, tos |-> dmg.tos,
         kills |-> kl + (n - Len(kept)), attacks |-> nAtt]

\* updateEnemies(delta): the loop of lines 508-560, every enemy doing its
\* cooldown decay and attack before its own death check
UpdateEnemies(es, h, tos, kl, k, delta) ==
    LET n == Len(es)
        ticked == [i \in 1..n |-> EnemyTick(es[i], InMelee(i, k), delta)]
        nAtt == Cardinality({i \in 1..Min(n, k) : Attacks(es[i], InMelee(i, k), delta)})
        dmg == ApplyAttacks(h, tos, nAtt)
        kept == SelectSeq(ticked, Alive)
    IN  [es |-> kept, hp |-> dmg.hp, tos |-> dmg.tos,
         kills |-> kl + (n - Len(kept)), attacks |-> nAtt]

\* the meshes of es without those of the dead
LiveMeshes(es) == {es[i].mesh : i \in {j \in 1..Len(es) : Alive(es[j])}}

\* the attack flashes of one updateEnemies call, the loop going from enemy i
\* down to the first; the looks of the enemies it then removes are dropped
RECURSIVE AttackFlashes(_, _, _, _, _)
AttackFlashes(fx, es, i, k, delta) ==
    IF i = 0 THEN Kept(fx, LiveMeshes(es))
    ELSE AttackFlashes(IF Attacks(es[i], InMelee(i, k), delta)
                       THEN AttackFlash(fx, es[i].mesh) ELSE fx,
                       es, i - 1, k, delta)

----------------------------------------------------------------------------
(* Hitscan *)

Scene == [mesh |-> NoMesh, part |-> "scene"]
NoObject == [mesh |-> NoMesh, part |-> "null"]
Group(m) == [mesh |-> m, part |-> "group"]

\* object.parent in the scene graph
Parent(o) ==
    IF o.part = "null" \/ o.part = "scene" THEN NoObject
    ELSE IF o.part = "group" THEN Scene
    ELSE Group(o.mesh)

\* let root = hit.object; while (root && !objs.includes(root)) root = root.parent;
RECURSIVE RootOf(_, _)
RootOf(o, objs) ==
    IF o # NoObject /\ o \notin objs THEN RootOf(Parent(o), objs) ELSE o

\* state.enemies.find(e => e.mesh === root): the index of the owner, 0 for none
Owner(es, root) ==
    IF \E i \in 1..Len(es) : Group(es[i].mesh) = root
    THEN CHOOSE i \in 1..Len(es) :
            /\ Group(es[i].mesh) = root
            /\ \A j \in 1..(i - 1) : Group(es[j].mesh) # root
    ELSE 0

\* owner.hp -= 50
Damaged(e) == [e EXCEPT !.hp = e.hp - ShotDamage]

\* mutant: the ray goes through every enemy
HitscanPierces(es, hit) ==
    IF hit = NoObject THEN es ELSE [i \in 1..Len(es) |-> Damaged(es[i])]

\* the raycast part of shoot(): `hit` is hits[0].object, NoObject when hits is empty
Hitscan(es, hit) ==
    LET objs == {Group(es[i].mesh) : i \in 1..Len(es)}
        o == IF hit = NoObject THEN 0 ELSE Owner(es, RootOf(hit, objs))
    IN  IF o = 0 THEN es
        ELSE [es EXCEPT ![o] = Damaged(es[o])]

\* what the ray can meet first: nothing, or a sub-mesh of one of the first
\* `aim` enemies
RayHits(es, aim) ==
    {NoObject} \cup
    {[mesh |-> es[i].mesh, part |-> p] : i \in 1..Min(Len(es), aim), p \in Parts}

----------------------------------------------------------------------------
(* Reload *)

\* mutant: the magazine is filled up whatever the reserve holds
ReloadTakenFull(a, r) == maxAmmo - a

\* const taken = Math.min(state.maxAmmo - state.ammo, state.reserveAmmo)
ReloadTaken(a, r) == Min(maxAmmo - a, r)

\* mutant: an empty reserve does not stop a reload
ReloadRejectedIgnoresReserve(rl, a, r) == rl \/ a = maxAmmo

\* mutant: a running reload does not stop another
ReloadRejectedIgnoresRunning(rl, a, r) == a = maxAmmo \/ r <= 0

\* reload() returns without starting a reload
ReloadRejected(rl, a, r) == rl \/ a = maxAmmo \/ r <= 0

----------------------------------------------------------------------------
(* Frame steps *)

\* mutant: the enemies are updated before the player has moved
FrameStepsEnemiesFirst == << "enemies", "move", "camera", "render" >>

\* the steps of a frame, in the order animate() calls them:
\* updatePlayerMovement, updateEnemies, updateCamera, renderer.render
FrameSteps == << "move", "enemies", "camera", "render" >>

\* no step of the frame throws
NoFault == "none"

Faults == {NoFault} \cup {FrameSteps[i] : i \in 1..Len(FrameSteps)}

\* mutant: the frame goes on after the throw
StepsBeforeAndAfter(fault) ==
    IF fault = NoFault THEN FrameSteps
    ELSE LET i == CHOOSE j \in 1..Len(FrameSteps) : FrameSteps[j] = fault
         IN  SubSeq(FrameSteps, 1, i - 1) \o SubSeq(FrameSteps, i + 1, Len(FrameSteps))

\* the steps that complete when the step `fault` throws: the try block is
\* left at the throw and the catch only logs
StepsBefore(fault) ==
    IF fault = NoFault THEN FrameSteps
    ELSE LET i == CHOOSE j \in 1..Len(FrameSteps) : FrameSteps[j] = fault
         IN  SubSeq(FrameSteps, 1, i - 1)

----------------------------------------------------------------------------
(* State after init() and the first call of animate():                     *)
(* populateWorld() has spawned the initial batch, startWaveSpawner() has   *)
(* created the first wave timer, the first frame has run and has           *)
(* requested the next.                                                     *)

\* the handler that ran, its outcome, the number of live enemies it found and,
\* for a shot that hit, the mesh group of the sub-mesh the ray met
Ran(op, res, m) == [op |-> op, res |-> res, n |-> Len(enemies), mesh |-> m]
Done(op, res) == Ran(op, res, NoMesh)

Init ==
    /\ shotAge = 0
    /\ frameAge = 0
    /\ hp = 100
    /\ ammo = 30
    /\ reserveAmmo = InitialReserveAmmo
    /\ reloading = FALSE
    /\ kills = 0
    /\ epoch = 0
    /\ \E rates \in RateChoices(<< >>, INITIAL_ENEMY_COUNT) :
          enemies = SpawnEnemies(<< >>, INITIAL_ENEMY_COUNT, 0, 0, rates, DefaultDraw)
    /\ nextMesh = ToSpawn(<< >>, INITIAL_ENEMY_COUNT)
    /\ timeouts = << >>
    /\ intervals = StartWaveSpawner({}, 0, 1)
    /\ waveIntervalHandle = 1
    /\ nextHandle = 1
    /\ used = [shots |-> 0, keys |-> 0, starts |-> 0, raids |-> 0]
    /\ last = [op |-> "init", res |-> "", n |-> 0, mesh |-> NoMesh]
    /\ player = InitPlayer
    /\ camera = UpdateCamera([x |-> 0, y |-> 0, z |-> 0, yaw |-> 0, pitch |-> 0],
                             InitPlayer)
    /\ isLocked = FALSE
    /\ allowMouseDragFallback = FALSE
    /\ raf = 1
    /\ tick = [steps |-> FrameSteps, seen |-> Position(InitPlayer),
               threw |-> NoFault, after |-> NoFault, delta |-> 10, keys |-> FALSE,
               melee |-> 0,
               chase |-> [from |-> DefaultReach(0),
                          to |-> Pursued(DefaultReach(0), ENEMY_BASE_SPEED, 10)],
               sep |-> NoSeparation]
    /\ effects = NoEffects

----------------------------------------------------------------------------
(* The page clock *)

\* d milliseconds pass: not past a due callback, and only once the frame
\* callback has run at the current time
Advance(d) ==
    /\ d > 0
    /\ frameAge = 0
    /\ \A t \in DueIn : d <= t
    /\ shotAge' = Min(shotAge + d, shootCooldown)
    /\ frameAge' = d
    /\ timeouts' = [i \in 1..Len(timeouts) |->
                        [timeouts[i] EXCEPT !.in = timeouts[i].in - d]]
    /\ intervals' = {[x EXCEPT !.in = x.in - d] : x \in intervals}
    /\ effects' = Passed(effects, d)
    /\ UNCHANGED << hp, ammo, reserveAmmo, reloading, kills, enemies, epoch,
                    nextMesh, waveIntervalHandle, nextHandle, used, last,
                    bodyVars, loopVars >>

\* the clock runs to the next due callback
AdvanceToDue ==
    \E t \in DueIn : Advance(t)

\* the clock runs to the next due callback while a timeout is pending
AdvanceToTimeout ==
    /\ timeouts # << >>
    /\ AdvanceToDue

\* the clock runs half a shot cooldown, while a shot is cooling down
AdvanceHalfCooldown ==
    /\ shotAge < shootCooldown
    /\ Advance(shootCooldown \div 2)

----------------------------------------------------------------------------
(* Handlers *)

\* reload()
Reload(op) ==
    IF ReloadRejected(reloading, ammo, reserveAmmo)
    THEN /\ last' = Done(op, "rejected")
         /\ UNCHANGED << reloading, timeouts >>
    ELSE /\ reloading' = TRUE
         /\ timeouts' = Append(timeouts, Timeout("reload", ReloadDelay))
         /\ last' = Done(op, "reloading")

\* keydown KeyR
ReloadKey ==
    /\ used.keys < MaxReloadKeys
    /\ used' = [used EXCEPT !.keys = @ + 1]
    /\ Reload("reload")
    /\ UNCHANGED << shotAge, frameAge, hp, ammo, reserveAmmo, kills, enemies, epoch,
                    nextMesh, intervals, waveIntervalHandle, nextHandle, bodyVars,
                    loopVars, effects >>

\* mutant: the cooldown is compared in the wrong unit
CoolingDownShort(age) == age * 10 < shootCooldown

\* if (now - state.lastShot < state.shootCooldown) return;
CoolingDown(age) == age < shootCooldown

\* mutant: only a negative magazine counts as empty
EmptyBelowZero(a) == a < 0

\* if (state.ammo <= 0) { reload(); return; }
Empty(a) == a <= 0

\* shoot(), the click handler; `hit` is the first object the ray meets
Shoot(hit) ==
    /\ IF CoolingDown(shotAge)
       THEN /\ last' = Done("shoot", "cooldown")
            /\ UNCHANGED << shotAge, ammo, enemies, reloading, timeouts, effects >>
       ELSE IF reloading
       THEN /\ last' = Done("shoot", "blocked")
            /\ UNCHANGED << shotAge, ammo, enemies, reloading, timeouts, effects >>
       ELSE IF Empty(ammo)
       THEN /\ Reload("shoot")
            /\ UNCHANGED << shotAge, ammo, enemies, effects >>
       ELSE /\ shotAge' = 0
            /\ ammo' = ammo - 1
            /\ enemies' = Hitscan(enemies, hit)
            /\ effects' = IF hit = NoObject THEN effects
                          ELSE HitFlash(effects, hit.mesh)
            /\ last' = Ran("shoot", IF hit = NoObject THEN "miss" ELSE "hit", hit.mesh)
            /\ UNCHANGED << reloading, timeouts >>
    /\ UNCHANGED << frameAge, hp, reserveAmmo, kills, epoch, nextMesh, intervals,
                    waveIntervalHandle, nextHandle, bodyVars, loopVars >>

\* a click, the ray meeting nothing or one of the first MaxAim enemies
Click ==
    /\ used.shots < MaxShots
    /\ \E hit \in RayHits(enemies, MaxAim) : Shoot(hit)
    /\ used' = [used EXCEPT !.shots = IF ammo' < ammo THEN @ + 1 ELSE @]

\* a click with no enemy in the line of fire
ClickAtNothing ==
    /\ UNCHANGED used
    /\ Shoot(NoObject)

\* mutant: the rounds loaded into the magazine are not taken from the reserve
ReloadDoneKeepsReserve(i) ==
    /\ timeouts[i].kind = "reload"
    /\ ammo' = ammo + ReloadTaken(ammo, reserveAmmo)
    /\ reserveAmmo' = reserveAmmo
    /\ reloading' = FALSE
    /\ last' = Done("reloadDone", "")
    /\ UNCHANGED << hp, enemies, epoch, nextMesh, intervals, waveIntervalHandle,
                    nextHandle, bodyVars, loopVars, effects >>

\* the setTimeout callback of reload()
ReloadDone(i) ==
    /\ timeouts[i].kind = "reload"
    /\ ammo' = ammo + ReloadTaken(ammo, reserveAmmo)
    /\ reserveAmmo' = reserveAmmo - ReloadTaken(ammo, reserveAmmo)
    /\ reloading' = FALSE
    /\ last' = Done("reloadDone", "")
    /\ UNCHANGED << hp, enemies, epoch, nextMesh, intervals, waveIntervalHandle,
                    nextHandle, bodyVars, loopVars, effects >>

\* the setTimeout callback of applyDamageToPlayer()
Respawn(i) ==
    /\ timeouts[i].kind = "respawn"
    /\ \E rates \in RateChoices(<< >>, INITIAL_ENEMY_COUNT) : ResetGame(rates, DefaultDraw)
    /\ last' = Done("respawn", "")
    /\ UNCHANGED << ammo, reserveAmmo, reloading, loopVars >>

\* the setTimeout callback of tryLock(): without the pointer lock, look control
\* falls back to dragging the mouse
LockCheck(i) ==
    /\ timeouts[i].kind = "lockCheck"
    /\ allowMouseDragFallback' = (allowMouseDragFallback \/ ~isLocked)
    /\ last' = Done("lockCheck", "")
    /\ UNCHANGED << hp, ammo, reserveAmmo, reloading, enemies, epoch, nextMesh,
                    intervals, waveIntervalHandle, nextHandle, bodyVars, isLocked,
                    raf, tick, effects >>

\* the earliest-set due timeout runs
TimeoutFire ==
    \E i \in 1..Len(timeouts) :
        /\ timeouts[i].in <= 0
        /\ \A j \in 1..(i - 1) : timeouts[j].in > 0
        /\ LET rest == [j \in 1..(Len(timeouts) - 1) |->
                            IF j < i THEN timeouts[j] ELSE timeouts[j + 1]]
           IN  timeouts' = IF IsRespawnTimer(timeouts[i]) THEN KeptByReset(rest)
                           ELSE rest
        /\ (ReloadDone(i) \/ Respawn(i) \/ LockCheck(i))
        /\ UNCHANGED << shotAge, frameAge, kills, used >>

\* the setInterval callback of startWaveSpawner(), the spawner drawing from
\* `draws`
WaveFireDrawing(draws) ==
    \E x \in intervals :
        /\ x.in <= 0
        /\ intervals' = (intervals \ {x}) \cup {[x EXCEPT !.in = WAVE_INTERVAL_MS]}
        /\ IF Len(enemies) < MAX_ENEMIES
           THEN \E rates \in RateChoices(enemies, WAVE_SIZE), d \in draws :
                  /\ enemies' = SpawnEnemies(enemies, WAVE_SIZE, epoch, nextMesh, rates, d)
                  /\ nextMesh' = nextMesh + ToSpawn(enemies, WAVE_SIZE)
                  /\ last' = Done("wave", "spawned")
           ELSE /\ UNCHANGED << enemies, nextMesh >>
                /\ last' = Done("wave", "full")
        /\ UNCHANGED << shotAge, frameAge, hp, ammo, reserveAmmo, reloading, kills,
                        epoch, timeouts, waveIntervalHandle, nextHandle, used,
                        bodyVars, loopVars, effects >>

\* the wave timer's callback with the spawner's default draw
WaveFire == WaveFireDrawing({DefaultDraw})

\* tryLock(), the start request: resetGame(), the request for the pointer
\* lock, which the browser answers later, and the check of its outcome; the
\* spawner draws from `draws`
TryLockDrawing(draws) ==
    /\ used.starts < MaxStarts
    /\ used' = [used EXCEPT !.starts = @ + 1]
    /\ \E rates \in RateChoices(<< >>, INITIAL_ENEMY_COUNT), d \in draws :
          ResetGame(rates, d)
    /\ timeouts' = Append(KeptByReset(timeouts), Timeout("lockCheck", LockCheckDelay))
    /\ last' = Done("start", "")
    /\ UNCHANGED << shotAge, frameAge, ammo, reserveAmmo, reloading, kills, loopVars >>

\* the start request with the spawner's default draw
TryLock == TryLockDrawing({DefaultDraw})

\* the player is out of ammunition
Spent == ammo = 0 /\ reserveAmmo = 0

\* a start request while the reload that empties the reserve is pending
TryLockLastReload ==
    /\ reloading
    /\ reserveAmmo <= maxAmmo - ammo
    /\ TryLock

\* mutant: the enemy update returns early, like the movement, while look
\* control is neither locked nor in fallback mode
RunStepEnemiesWaitForStart(name, st, delta, k, to, active, d) ==
    LET done == [st EXCEPT !.steps = Append(@, name)]
    IN  CASE name = "move" ->
               [done EXCEPT !.player =
                   IF active THEN UpdatePlayerMovement(@, delta, to) ELSE @]
          [] name = "enemies" /\ ~active -> done
          [] name = "enemies" /\ active ->
               LET r == UpdateEnemies(st.enemies, st.hp, st.tos, st.kills, k, delta)
               IN  [done EXCEPT !.enemies = r.es, !.hp = r.hp, !.tos = r.tos,
                                !.kills = r.kills, !.attacks = r.attacks,
                                !.seen = Position(st.player),
                                !.fx = AttackFlashes(@, st.enemies, Min(Len(st.enemies), k),
                                                     k, delta),
                                !.melee = k,
                                !.sep = [from |-> st.herd, to |-> Separated(st.herd)],
                                !.chase =
                                    IF st.enemies = << >> THEN NoChase
                                    ELSE [from |-> d,
                                          to |-> Pursued(d, st.enemies[1].speed, delta)]]
          [] name = "camera" ->
               [done EXCEPT !.camera = UpdateCamera(@, st.player)]
          [] name = "render" -> done

\* one step of a frame on the frame's running state st; d is the distance of
\* the first enemy from the player when its pursuit step begins
RunStep(name, st, delta, k, to, active, d) ==
    LET done == [st EXCEPT !.steps = Append(@, name)]
    IN  CASE name = "move" ->
               [done EXCEPT !.player =
                   IF active THEN UpdatePlayerMovement(@, delta, to) ELSE @]
          [] name = "enemies" ->
               LET r == UpdateEnemies(st.enemies, st.hp, st.tos, st.kills, k, delta)
               IN  [done EXCEPT !.enemies = r.es, !.hp = r.hp, !.tos = r.tos,
                                !.kills = r.kills, !.attacks = r.attacks,
                                !.seen = Position(st.player),
                                !.fx = AttackFlashes(@, st.enemies, Min(Len(st.enemies), k),
                                                     k, delta),
                                !.melee = k,
                                !.sep = [from |-> st.herd, to |-> Separated(st.herd)],
                                !.chase =
                                    IF st.enemies = << >> THEN NoChase
                                    ELSE [from |-> d,
                                          to |-> Pursued(d, st.enemies[1].speed, delta)]]
          [] name = "camera" ->
               [done EXCEPT !.camera = UpdateCamera(@, st.player)]
          [] name = "render" -> done

RECURSIVE RunSteps(_, _, _, _, _, _, _)
RunSteps(names, st, delta, k, to, active, d) ==
    IF names = << >> THEN st
    ELSE RunSteps(Tail(names), RunStep(Head(names), st, delta, k, to, active, d),
                  delta, k, to, active, d)

\* animate(), the frame callback, with the first k enemies in melee range,
\* the first enemy at distance d from the player and the first Len(ps)
\* enemies on one line at the positions ps; the step `fault` throws, a
\* movement key is held or not
TickOn(k, fault, keys, d, ps) ==
    /\ frameAge > 0
    /\ raf > 0
    /\ raf' = (raf - 1) + 1
    /\ frameAge' = 0
    /\ \E to \in Horizontal(player, keys, frameAge) :
         LET st == [player |-> player, enemies |-> enemies, hp |-> hp,
                    tos |-> timeouts, kills |-> kills, attacks |-> 0,
                    camera |-> camera, seen |-> Nowhere, steps |-> << >>,
                    melee |-> 0, chase |-> NoChase, fx |-> effects,
                    herd |-> SubSeq(ps, 1, Min(Len(ps), Len(enemies))),
                    sep |-> NoSeparation]
         IN  \E r \in {RunSteps(StepsBefore(fault), st, frameAge, k, to,
                           MoveActive(isLocked, allowMouseDragFallback), d)} :
             /\ player' = r.player
             /\ enemies' = r.enemies
             /\ hp' = r.hp
             /\ timeouts' = r.tos
             /\ kills' = r.kills
             /\ camera' = r.camera
             /\ effects' = r.fx
             /\ tick' = [steps |-> r.steps, seen |-> r.seen, threw |-> fault,
                         after |-> tick.threw, delta |-> frameAge, keys |-> keys,
                         melee |-> r.melee, chase |-> r.chase, sep |-> r.sep]
             /\ last' = Done("frame", IF r.attacks > 0 THEN "attacked" ELSE "")
    /\ UNCHANGED << shotAge, ammo, reserveAmmo, reloading, epoch, nextMesh, intervals,
                    waveIntervalHandle, nextHandle, isLocked, allowMouseDragFallback >>

\* the frame callback with no enemy positions followed
TickFrom(k, fault, keys, d) == TickOn(k, fault, keys, d, NoHerd)

\* the frame callback with the first enemy on the threshold or far away
Tick(k, fault, keys) == TickFrom(k, fault, keys, DefaultReach(k))

\* a frame in which no step throws and no movement key is held
Animate(k) ==
    /\ k > 0 => used.raids < MaxRaids
    /\ used' = [used EXCEPT !.raids = IF k > 0 THEN @ + 1 ELSE @]
    /\ Tick(k, NoFault, FALSE)

\* the numbers of enemies in melee range the frames are run with
MeleeCounts == {0, MaxMelee}

Frame == \E k \in MeleeCounts : Animate(k)

\* a frame; the enemies reach the player only once the ammunition is spent
FrameLateRaid == \E k \in MeleeCounts : (k > 0 => Spent) /\ Animate(k)

\* keydown KeyR right after the first shot of a magazine, or during a reload
ReloadKeyEarly ==
    /\ ammo >= maxAmmo - 1 \/ reloading
    /\ ReloadKey

----------------------------------------------------------------------------
(* Specifications *)

\* the game over many waves: a few shots, the clock running from one due
\* callback to the next
Next ==
    \/ AdvanceToDue
    \/ Frame
    \/ Click
    \/ TimeoutFire
    \/ WaveFire
    \/ TryLock

Spec == Init /\ [][Next]_vars

\* the weapon over its whole ammunition: any number of clicks, none of them
\* at an enemy, the clock running in steps of half a shot cooldown after a
\* shot and to the next callback while a timeout is pending; the reload key
\* is pressed early in a magazine, the game is restarted during the last
\* reload, and the enemies arrive once the ammunition is spent
NextWeapon ==
    \/ AdvanceHalfCooldown
    \/ AdvanceToTimeout
    \/ FrameLateRaid
    \/ ClickAtNothing
    \/ ReloadKeyEarly
    \/ TimeoutFire
    \/ WaveFire
    \/ TryLockLastReload

SpecWeapon == Init /\ [][NextWeapon]_vars

\* the player under siege: one or two enemies stay in melee range, frames
\* run once per attack interval, nothing is fired
SiegeCounts == {0, 1, 2}

\* the clock runs one attack interval
AdvanceAttackRate ==
    \E r \in AttackRates : Advance(r)

\* a frame of the siege; the enemies are upon the player until the second
\* wave after a reset, for MaxDeaths lives
FrameSiege ==
    /\ UNCHANGED used
    /\ \E k \in SiegeCounts :
          /\ k > 0 => epoch < MaxDeaths /\ nextMesh <= INITIAL_ENEMY_COUNT + WAVE_SIZE
          /\ Tick(k, NoFault, FALSE)

NextSiege ==
    \/ AdvanceAttackRate
    \/ FrameSiege
    \/ TimeoutFire
    \/ WaveFire

SpecSiege == Init /\ [][NextSiege]_vars

\* the browser keeps the page running: the clock goes on, due timer callbacks
\* run, and a requested animation frame runs (the frame is requested whenever
\* frameAge > 0, so the last condition is weak fairness of the frame)
SpecSiegeFair ==
    /\ SpecSiege
    /\ WF_vars(AdvanceAttackRate)
    /\ WF_vars(TimeoutFire)
    /\ WF_vars(WaveFire)
    /\ []<>(frameAge = 0)

\* the frame loop followed frame by frame, short and long frames: in SpecFrame
\* any step of a frame may throw while the player jumps on the spot; in
\* SpecMove the player walks, the pointer lock is granted or not, the mouse
\* turns the camera and one raid kills the player

\* the lengths of the frames: a fifth of a second, and a frame that was held
\* up for a second
FrameTimes == {200, 1000}

\* sampled camera.rotation values (yaw, pitch) in thousandths of a radian
Looks == { [yaw |-> 0, pitch |-> 0], [yaw |-> 500, pitch |-> -250] }

\* the clock runs to the next frame, in the first MaxPlay milliseconds of a
\* wave interval
AdvanceFrameTime ==
    \E d \in FrameTimes :
        /\ \A x \in intervals : x.in - d >= WAVE_INTERVAL_MS - MaxPlay
        /\ Advance(d)

\* a frame in which any step may throw; no enemy is in melee range and no
\* movement key is held
FrameFaulty ==
    /\ UNCHANGED used
    /\ \E fault \in Faults : Tick(0, fault, FALSE)

\* a frame in which no step throws; a movement key may be held, and is held
\* as long as the player has horizontal velocity
FrameWalk ==
    \E k \in MeleeCounts, keys \in BOOLEAN :
        /\ ~keys => player.vx = 0 /\ player.vz = 0
        /\ k > 0 => used.raids < MaxRaids
        /\ used' = [used EXCEPT !.raids = IF k > 0 THEN @ + 1 ELSE @]
        /\ Tick(k, NoFault, keys)

\* keydown Space
JumpKey ==
    /\ player' = Jumped(player)
    /\ last' = Done("jump", IF player.onGround THEN "jumped" ELSE "ignored")
    /\ UNCHANGED << shotAge, frameAge, hp, ammo, reserveAmmo, reloading, kills,
                    enemies, epoch, nextMesh, timeouts, intervals, waveIntervalHandle,
                    nextHandle, used, camera, loopVars, effects >>

\* pointerlockchange: the browser grants the lock that tryLock() asked for, or
\* the user leaves it
PointerLockChange ==
    /\ ~isLocked => used.starts > 0
    /\ isLocked' = ~isLocked
    /\ last' = Done("pointerlock", "")
    /\ UNCHANGED << shotAge, frameAge, hp, ammo, reserveAmmo, reloading, kills,
                    enemies, epoch, nextMesh, timeouts, intervals, waveIntervalHandle,
                    nextHandle, used, bodyVars, allowMouseDragFallback, raf, tick,
                    effects >>

\* mousemove while the look is under control: the camera turns
MouseMove ==
    /\ isLocked \/ allowMouseDragFallback
    /\ \E look \in Looks :
          /\ look # [yaw |-> camera.yaw, pitch |-> camera.pitch]
          /\ camera' = [camera EXCEPT !.yaw = look.yaw, !.pitch = look.pitch]
    /\ last' = Done("mousemove", "")
    /\ UNCHANGED << shotAge, frameAge, hp, ammo, reserveAmmo, reloading, kills,
                    enemies, epoch, nextMesh, timeouts, intervals, waveIntervalHandle,
                    nextHandle, used, player, loopVars, effects >>

NextFrame ==
    \/ AdvanceFrameTime
    \/ FrameFaulty
    \/ JumpKey
    \/ TryLock
    \/ TimeoutFire

SpecFrame == Init /\ [][NextFrame]_vars

\* the browser grants the pointer lock before tryLock() checks for it
PointerLockGranted ==
    /\ ~isLocked
    /\ ~allowMouseDragFallback
    /\ PointerLockChange

NextMove ==
    \/ AdvanceFrameTime
    \/ FrameWalk
    \/ TryLock
    \/ PointerLockGranted
    \/ MouseMove
    \/ TimeoutFire

SpecMove == Init /\ [][NextMove]_vars

\* the player lets go of the movement keys: a frame with a key held, then
\* frames without, a tenth of a second to a second apart
GlideTimes == {100, 200, 1000}

AdvanceGlideTime ==
    \E d \in GlideTimes :
        /\ \A x \in intervals : x.in - d >= WAVE_INTERVAL_MS - MaxPlay
        /\ Advance(d)

\* a frame with a movement key held, from rest
FrameStride ==
    /\ player.vx = 0 /\ player.vz = 0
    /\ UNCHANGED used
    /\ Tick(0, NoFault, TRUE)

\* a frame with no movement key held
FrameGlide ==
    /\ UNCHANGED used
    /\ Tick(0, NoFault, FALSE)

NextGlide ==
    \/ AdvanceGlideTime
    \/ FrameStride
    \/ FrameGlide
    \/ TryLock
    \/ TimeoutFire

SpecGlide == Init /\ [][NextGlide]_vars

\* the spawner drawing its places: a start request, the first two waves after
\* it, and the player walking away from the origin in between
FrameFar ==
    /\ UNCHANGED used
    /\ \E keys \in BOOLEAN :
          /\ ~keys => player.vx = 0 /\ player.vz = 0
          /\ Tick(0, NoFault, keys)

TryLockAnywhere == TryLockDrawing(Draws)

WaveFireAnywhere ==
    /\ nextMesh <= INITIAL_ENEMY_COUNT + WAVE_SIZE
    /\ WaveFireDrawing(Draws)

NextSpawn ==
    \/ AdvanceToDue
    \/ FrameFar
    \/ TryLockAnywhere
    \/ WaveFireAnywhere
    \/ TimeoutFire

SpecSpawn == Init /\ [][NextSpawn]_vars

\* the enemies closing in, frames half a second or a second apart: the
\* distances the first enemy is at when its pursuit step begins are 0, 0.0005,
\* 1, 1.6 and 200 units
Reaches == {0, 5, 10000, 16000, 2000000}

MeleeTimes == {500, 1000}

AdvanceMeleeTime ==
    \E d \in MeleeTimes :
        /\ \A x \in intervals : x.in - d >= WAVE_INTERVAL_MS - MaxPlay
        /\ Advance(d)

\* a frame with up to two enemies in melee range
FrameMelee ==
    /\ UNCHANGED used
    /\ \E k \in SiegeCounts, d \in Reaches :
          /\ k > 0 <=> d <= minDist
          /\ TickFrom(k, NoFault, FALSE, d)

NextMelee ==
    \/ AdvanceMeleeTime
    \/ FrameMelee

SpecMelee == Init /\ [][NextMelee]_vars

\* the player shoots at the first enemy while it and its neighbour come into
\* melee range: clicks, frames, and the clock running half a shot cooldown
\* at a time
NextKill ==
    \/ AdvanceHalfCooldown
    \/ Click
    \/ FrameSiege

SpecKill == Init /\ [][NextKill]_vars

\* places on a line, in hundred-thousandths of a unit: 0, 1.0, 1.65 (the
\* separation distance), 2.2 and 4.0 units along it
Spots == {0, 100000, 165000, 220000, 400000}

\* two or three enemies standing on those places, in any order, some of them
\* on the same place
Herds == [1..2 -> Spots] \cup [1..3 -> Spots]

\* a frame that finds the first enemies on a line, none of them in melee range
FrameHerd ==
    /\ UNCHANGED used
    /\ \E ps \in Herds : TickOn(0, NoFault, FALSE, DefaultReach(0), ps)

NextHerd ==
    \/ AdvanceMeleeTime
    \/ FrameHerd

SpecHerd == Init /\ [][NextHerd]_vars

----------------------------------------------------------------------------
(* Steps, as the claims speak of them *)

\* the step is a run of shoot()
ShootStep == last'.op = "shoot" /\ frameAge' = frameAge

\* the step is a run of shoot() that fired
ShotFired == ShootStep /\ last'.res \in {"hit", "miss"}

\* the step is a press of the reload key
ReloadKeyStep == used'.keys = used.keys + 1

\* the step is a run of the wave timer's callback that called spawnEnemies
WaveSpawnStep ==
    /\ last'.op = "wave"
    /\ last'.res = "spawned"
    /\ frameAge' = frameAge
    /\ intervals' # intervals

\* the step is a run of resetGame()
ResetStep == epoch' = epoch + 1

\* the step is a run of animate()
FrameStep == frameAge > 0 /\ frameAge' = 0

\* what a call of reload() does
ReloadAttempt ==
    IF reloading \/ ammo = 30 \/ reserveAmmo = 0
    THEN UNCHANGED << ammo, reserveAmmo, reloading, timeouts >>
    ELSE /\ reloading'
         /\ timeouts' = Append(timeouts, [kind |-> "reload", in |-> 800])
         /\ UNCHANGED << ammo, reserveAmmo >>

ReloadsPending == {i \in 1..Len(timeouts) : timeouts[i].kind = "reload"}

MeshesOf(es) == {es[i].mesh : i \in 1..Len(es)}

----------------------------------------------------------------------------
(* Claims *)

\* C1: in every reachable state the live collection holds at most 120
\* enemies, whatever the interleaving of the initial population, wave-timer
\* firings, game resets and death sweeps.
C1_LiveAtMostCap == Len(enemies) <= 120

\* C1 witness: after a reset the collection has filled up again and the wave
\* timer has fired on the full collection.
C1_Witness ==
    /\ Len(enemies) = 120
    /\ epoch > 0
    /\ last.op = "wave"
    /\ last.res = "full"

\* C2: spawnEnemies(count) at L live enemies appends exactly
\* min(count, max(0, 120 - L)) enemies with health 100 and cooldown 0 and
\* leaves the existing ones as they are: 6 per wave callback (2 at L = 118),
\* 30 on the collection a reset has emptied.
C2_SpawnCount ==
    [][ /\ WaveSpawnStep =>
            LET L == Len(enemies)
                k == IF 6 < 120 - L THEN 6 ELSE IF 120 - L > 0 THEN 120 - L ELSE 0
            IN  /\ Len(enemies') = L + k
                /\ SubSeq(enemies', 1, L) = enemies
                /\ \A i \in (L + 1)..(L + k) :
                      /\ enemies'[i].hp = 100
                      /\ enemies'[i].attackCooldown = 0
                      /\ enemies'[i].mesh \notin MeshesOf(enemies)
                /\ L = 118 => Len(enemies') = 120
        /\ ResetStep =>
            /\ Len(enemies') = 30
            /\ \A i \in 1..30 : enemies'[i].hp = 100 /\ enemies'[i].attackCooldown = 0
      ]_vars

\* C2 witness: the wave callback found 118 live enemies and left 120.
C2_Witness ==
    /\ last.op = "wave"
    /\ last.res = "spawned"
    /\ last.n = 118
    /\ Len(enemies) = 120

\* C3: a fire request changes ammo or lastShot only if at least 100 ms have
\* passed since lastShot, no reload is running and ammo > 0; it then takes
\* exactly 1 from ammo and sets lastShot to now.  So a request 50 ms after an
\* accepted shot changes neither.
C3_FireRateLimited ==
    [][ ShootStep /\ (ammo' # ammo \/ shotAge' # shotAge) =>
            /\ shotAge >= 100
            /\ ~reloading
            /\ ammo > 0
            /\ ammo' = ammo - 1
            /\ shotAge' = 0
      ]_vars

\* C3 witness: a fire request 50 ms after an accepted shot was turned down.
C3_Witness ==
    /\ last.op = "shoot"
    /\ last.res = "cooldown"
    /\ shotAge = 50
    /\ ammo < 30

\* C4 as stated: every fire request made at ammo 0 is a reload attempt and
\* never a shot, whatever the time since the last accepted shot.
C4_AsStated ==
    [][ ShootStep /\ ammo = 0 =>
            /\ ReloadAttempt
            /\ shotAge' = shotAge
            /\ enemies' = enemies
      ]_vars

\* C4 as amended: a fire request made at ammo 0 never fires; it is a reload
\* attempt when at least 100 ms have passed since the last accepted shot, and
\* is ignored, with no reload attempt, inside the cooldown.
C4_EmptyFireReloads ==
    [][ ShootStep /\ ammo = 0 =>
            /\ ammo' = ammo
            /\ shotAge' = shotAge
            /\ enemies' = enemies
            /\ IF shotAge >= 100 THEN ReloadAttempt
               ELSE UNCHANGED << reserveAmmo, reloading, timeouts >>
      ]_vars

\* C4 witness: a fire request at ammo 0 has started a reload.
C4_Witness ==
    /\ last.op = "shoot"
    /\ last.res = "reloading"
    /\ ammo = 0
    /\ reloading

\* the step is a call of reload(): the reload key, or a fire request that
\* gets as far as the empty magazine
ReloadRequestStep ==
    \/ ReloadKeyStep
    \/ ShootStep /\ shotAge >= 100 /\ ~reloading /\ ammo = 0

\* C5: a reload request made while a reload is running, or with a full
\* magazine (30), or with no reserve ammo changes nothing: ammo, reserveAmmo
\* and reloading stay and no completion timer is set.
C5_ReloadRejected ==
    [][ ReloadRequestStep /\ (reloading \/ ammo = 30 \/ reserveAmmo = 0) =>
            UNCHANGED << ammo, reserveAmmo, reloading, timeouts >>
      ]_vars

\* C5 witness: the reload key was pressed with a magazine of 29 and no
\* reserve, no reload running, and nothing was started.
C5_Witness ==
    /\ last.op = "reload"
    /\ last.res = "rejected"
    /\ ammo = 29
    /\ reserveAmmo = 0
    /\ ~reloading
    /\ timeouts = << >>

\* C6: an accepted reload sets one completion timer of 800 ms; ammo and
\* reserveAmmo keep the values a and r they had at acceptance until it runs;
\* when it runs ammo = a + min(30 - a, r), reserveAmmo = r - min(30 - a, r) and
\* reloading is false, so ammo + reserveAmmo is conserved and ammo <= 30.
C6_ReloadCompletes ==
    [][ /\ ~reloading /\ reloading' =>
            /\ timeouts' = Append(timeouts, [kind |-> "reload", in |-> 800])
            /\ UNCHANGED << ammo, reserveAmmo >>
        /\ reloading /\ reloading' => UNCHANGED << ammo, reserveAmmo >>
        /\ reloading /\ ~reloading' =>
            LET a == ammo
                r == reserveAmmo
                t == IF 30 - a < r THEN 30 - a ELSE r
            IN  /\ \E i \in ReloadsPending : timeouts[i].in = 0
                /\ ammo' = a + t
                /\ reserveAmmo' = r - t
                /\ ammo' + reserveAmmo' = a + r
                /\ ammo' <= 30
      ]_vars

\* C6 witness: a reload has completed that the reserve could not fill up.
C6_Witness ==
    /\ last.op = "reloadDone"
    /\ ~reloading
    /\ reserveAmmo = 0
    /\ ammo > 0
    /\ ammo < 30

\* C7: at most one reload-completion timer is pending, and reloading is true
\* exactly while one is pending.
C7_OneReloadInFlight ==
    Cardinality(ReloadsPending) = IF reloading THEN 1 ELSE 0

\* C7 witness: the game was reset while a reload was pending.
C7_Witness ==
    /\ last.op = "start"
    /\ reloading
    /\ ReloadsPending # {}

\* C8: in every reachable state 0 <= health <= 100, 0 <= ammo <= 30 and
\* 0 <= reserveAmmo <= 90.
C8_ResourceRanges ==
    /\ 0 <= hp /\ hp <= 100
    /\ 0 <= ammo /\ ammo <= 30
    /\ 0 <= reserveAmmo /\ reserveAmmo <= 90

\* C8 witness: the player has died with the ammunition spent.
C8_Witness ==
    /\ hp = 0
    /\ ammo = 0
    /\ reserveAmmo = 0
    /\ last.op = "frame"
    /\ last.res = "attacked"

\* C9: an accepted shot that hits takes exactly 50 health from the enemy that
\* owns the sub-mesh hit and changes nothing else of the collection; one that
\* misses changes no enemy.  The shot removes no enemy and leaves the player's
\* health alone.
C9_ShotHitsOne ==
    [][ ShotFired =>
            /\ hp' = hp
            /\ kills' = kills
            /\ Len(enemies') = Len(enemies)
            /\ IF last'.res = "hit"
               THEN \E i \in 1..Len(enemies) :
                      /\ enemies[i].mesh = last'.mesh
                      /\ enemies' = [enemies EXCEPT ![i].hp = @ - 50]
               ELSE enemies' = enemies
      ]_vars

\* C9 witness: a second shot has hit the same enemy, which is at health 0 and
\* still in the collection.
C9_Witness ==
    /\ last.op = "shoot"
    /\ last.res = "hit"
    /\ \E i \in 1..Len(enemies) : enemies[i].mesh = last.mesh /\ enemies[i].hp = 0

\* the enemies of collection es that are not in collection fs
Removed(es, fs) ==
    LET kept == MeshesOf(fs)
    IN  {i \in 1..Len(es) : es[i].mesh \notin kept}

\* the enemies of collection es with no health left
Dead(es) == {i \in 1..Len(es) : es[i].hp <= 0}

\* C10 as stated: no operation removes an enemy whose health is > 0, and after
\* every AI tick no enemy with health <= 0 is left.
C10_AsStated ==
    [][ /\ enemies' # enemies => Removed(enemies, enemies') \subseteq Dead(enemies)
        /\ FrameStep => Dead(enemies') = {}
      ]_vars

\* C10 as amended: apart from a game reset, which discards every live enemy
\* whatever its health, no operation removes an enemy whose health is > 0; an
\* AI tick removes exactly the enemies whose health is <= 0.
C10_RemovedIffDead ==
    [][ enemies' # enemies =>
          LET gone == Removed(enemies, enemies')
          IN  /\ ~ResetStep => gone \subseteq Dead(enemies)
              /\ ResetStep => gone = 1..Len(enemies)
              /\ FrameStep => Dead(enemies') = {} /\ gone = Dead(enemies)
      ]_vars

\* C10 witness: a frame has swept an enemy out of the collection.
C10_Witness ==
    /\ last.op = "frame"
    /\ Len(enemies) < last.n

\* C11 as stated: the kill counter goes up by exactly 1 for each enemy removed
\* from the live collection, whatever removes it.
C11_AsStated ==
    [][ IF enemies' = enemies THEN kills' = kills
        ELSE kills' - kills = Cardinality(Removed(enemies, enemies'))
      ]_vars

\* C11 as amended: the kill counter goes up by exactly 1 for each enemy the
\* death sweep of an AI tick removes, however often the enemy was hit; a game
\* reset discards every live enemy and leaves the counter alone.
C11_KillsCountSweeps ==
    [][ IF enemies' = enemies \/ ResetStep THEN kills' = kills
        ELSE kills' - kills = Cardinality(Removed(enemies, enemies'))
      ]_vars

\* C11 witness: an enemy hit three times has been swept and counted once.
C11_Witness ==
    /\ last.op = "frame"
    /\ Len(enemies) = last.n - 1
    /\ kills = 1
    /\ ammo = 27
    /\ \A i \in 1..Len(enemies) : enemies[i].hp = 100

\* the enemies that have just landed an attack: the tick set their cooldown
\* to their attack interval
Attackers(es) == {i \in 1..Len(es) : es[i].attackCooldown = es[i].attackRate}

RespawnsPending == {i \in 1..Len(timeouts) : timeouts[i].kind = "respawn"}

\* the step is a run of the death-respawn callback
RespawnStep == last'.op = "respawn" /\ epoch' = epoch + 1

\* C12: each enemy attack that lands sets the player's health to
\* max(0, health - 10), and a death-respawn timer is scheduled only by an attack
\* that leaves health 0: after n attacks in a tick health is max(0, health - 10 n)
\* and one 2000 ms timer has been set for each attack that left health 0.
C12_AttackDamage ==
    [][ FrameStep /\ Len(enemies') = Len(enemies) =>
          LET n == Cardinality(Attackers(enemies'))
              fatal == {j \in 1..n : hp - 10 * j <= 0}
          IN  /\ hp' = IF hp - 10 * n > 0 THEN hp - 10 * n ELSE 0
              /\ (n > 0) <=> (last'.res = "attacked")
              /\ fatal # {} => hp' = 0
              /\ timeouts' = timeouts \o
                    [j \in 1..Cardinality(fatal) |-> [kind |-> "respawn", in |-> 2000]]
      ]_vars

\* C12 witness: from health 100 one enemy has attacked twice, health is 80 and
\* no respawn is scheduled.
C12_Witness ==
    /\ last.op = "frame"
    /\ last.res = "attacked"
    /\ hp = 80
    /\ epoch = 0
    /\ Attackers(enemies) = {1}
    /\ timeouts = << >>

\* C13: when the player's health becomes 0 a respawn callback is set for
\* 2000 ms later; it stays pending until it is due and then runs a game reset,
\* right after which health is 100 and exactly 30 enemies are live; with the
\* timers firing, health 0 always leads to that reset.
C13_DeathLeadsToReset ==
    /\ [][ /\ hp > 0 /\ hp' = 0 =>
                /\ Len(timeouts') > Len(timeouts)
                /\ timeouts'[Len(timeouts) + 1] = [kind |-> "respawn", in |-> 2000]
           /\ RespawnStep =>
                /\ \E i \in RespawnsPending : timeouts[i].in = 0
                /\ hp' = 100
                /\ Len(enemies') = 30
           /\ ~RespawnStep /\ frameAge' <= frameAge =>
                Cardinality(RespawnsPending') >= Cardinality(RespawnsPending)
           /\ frameAge' > frameAge =>
                \A i \in RespawnsPending :
                    /\ timeouts'[i].kind = "respawn"
                    /\ timeouts'[i].in = timeouts[i].in - frameAge'
                    /\ timeouts'[i].in >= 0
         ]_vars
    /\ (hp = 0 ~> (last.op = "respawn" /\ hp = 100 /\ Len(enemies) = 30))

\* C13 witness: the player died with more than 30 enemies live and the
\* respawn has reset the game.
C13_Witness ==
    /\ last.op = "respawn"
    /\ last.n > 30
    /\ hp = 100
    /\ Len(enemies) = 30

\* C14 as stated: at most one death-respawn timer is pending at any time.
C14_AsStated == Cardinality(RespawnsPending) <= 1

\* C16: after any sequence of start requests and game resets exactly one
\* recurring wave timer is active, the one waveIntervalHandle names.
C16_OneWaveTimer ==
    /\ Cardinality(intervals) = 1
    /\ \A x \in intervals : x.id = waveIntervalHandle

\* C16 witness: a start request and a death have both reset the game, and the
\* one wave timer is the one the last reset created.
C16_Witness ==
    /\ last.op = "respawn"
    /\ used.starts = 1
    /\ epoch >= 2
    /\ intervals = {[id |-> nextHandle, in |-> 10000]}

\* the step is a run of the wave timer's callback
WaveStep ==
    /\ last'.op = "wave"
    /\ frameAge' = frameAge
    /\ intervals' # intervals

\* C17: a firing of the wave timer with L live enemies leaves min(L + 6, 120);
\* the timer fires when its 10 s have run out and is then due again in 10 s;
\* a game reset leaves a wave timer due in 10 s; between these the time left
\* only runs down with the clock.
C17_WaveTiming ==
    [][ /\ WaveStep =>
            /\ Len(enemies') = IF Len(enemies) + 6 < 120 THEN Len(enemies) + 6 ELSE 120
            /\ \E x \in intervals :
                  /\ x.in = 0
                  /\ intervals' = (intervals \ {x}) \cup {[x EXCEPT !.in = 10000]}
        /\ ResetStep => \A x \in intervals' : x.in = 10000
        /\ frameAge' > frameAge =>
            /\ intervals' = {[x EXCEPT !.in = @ - frameAge'] : x \in intervals}
            /\ \A x \in intervals' : x.in >= 0
        /\ ~WaveStep /\ ~ResetStep /\ frameAge' <= frameAge => intervals' = intervals
      ]_vars

\* C17 witness: the wave timer has fired with 119 enemies live and left 120.
C17_Witness ==
    /\ last.op = "wave"
    /\ last.n = 119
    /\ Len(enemies) = 120

\* C15 as stated: right after a game reset the player is at the origin with y
\* exactly height(0, 0) = 12, health is 100, velocity is zero, the look
\* direction is reset and no enemy from before the reset is live.
C15_AsStated ==
    [][ ResetStep =>
            /\ player'.x = 0 /\ player'.z = 0
            /\ player'.y = 120000
            /\ player'.vx = 0 /\ player'.vy = 0 /\ player'.vz = 0
            /\ hp' = 100
            /\ camera'.yaw = 0 /\ camera'.pitch = 0
            /\ MeshesOf(enemies') \cap MeshesOf(enemies) = {}
      ]_vars

\* C15 as amended: right after a game reset the player is at the origin with y
\* equal to height(0, 0) + 0.1 = 12.1, a tenth of a unit above the ground and
\* not grounded; health is 100, velocity is zero, the look direction is reset
\* and the live collection holds 30 enemies, none from before the reset.
C15_ResetState ==
    [][ ResetStep =>
            /\ player'.x = 0 /\ player'.z = 0
            /\ player'.y = 120000 + 1000
            /\ ~player'.onGround
            /\ player'.vx = 0 /\ player'.vy = 0 /\ player'.vz = 0
            /\ hp' = 100
            /\ camera'.yaw = 0 /\ camera'.pitch = 0
            /\ Len(enemies') = 30
            /\ MeshesOf(enemies') \cap MeshesOf(enemies) = {}
      ]_vars

\* C15 witness: the game has been reset while the player was a hundred units
\* from the origin; the camera, not yet moved, still stands there.
C15_Witness ==
    /\ last.op = "respawn"
    /\ player.x = 0
    /\ player.y = 121000
    /\ camera.x = 1000000
    /\ camera.yaw = 0

\* the steps a frame has gone through, as a set
StepRan(name) == \E i \in 1..Len(tick'.steps) : tick'.steps[i] = name

\* C18: when a step of a frame throws, the steps before it have run, the step
\* and those after it are skipped, the frame clock is read and the next frame
\* is requested all the same; the frame after that runs all four steps.
C18_FaultCaught ==
    [][ FrameStep =>
            /\ raf' = 1
            /\ frameAge' = 0
            /\ tick'.steps =
                 CASE tick'.threw = "none" -> << "move", "enemies", "camera", "render" >>
                   [] tick'.threw = "move" -> << >>
                   [] tick'.threw = "enemies" -> << "move" >>
                   [] tick'.threw = "camera" -> << "move", "enemies" >>
                   [] tick'.threw = "render" -> << "move", "enemies", "camera" >>
            /\ ~StepRan("move") => player' = player
            /\ ~StepRan("enemies") =>
                  /\ enemies' = enemies /\ hp' = hp /\ kills' = kills
                  /\ timeouts' = timeouts
            /\ ~StepRan("camera") => UNCHANGED camera
      ]_vars

\* C18 witness: the enemy update threw in one frame and the next frame has run
\* all four steps.
C18_Witness ==
    /\ last.op = "frame"
    /\ tick.after = "enemies"
    /\ tick.threw = "none"
    /\ tick.steps = << "move", "enemies", "camera", "render" >>

\* C19: the steps of a frame run in the order movement, enemy update, camera,
\* render, all with the frame's elapsed time; the enemy update sees the
\* position the movement of this frame produced, the camera is put on it, and
\* nothing but the frame's own steps runs in between.
C19_FrameOrder ==
    [][ FrameStep =>
            /\ \A i \in 1..Len(tick'.steps) :
                  tick'.steps[i] = << "move", "enemies", "camera", "render" >>[i]
            /\ StepRan("enemies") =>
                  /\ tick'.seen = [x |-> player'.x, y |-> player'.y, z |-> player'.z]
                  /\ Len(enemies') = Len(enemies) =>
                        \A i \in 1..Len(enemies) :
                            \/ enemies'[i].attackCooldown = enemies'[i].attackRate
                            \/ enemies'[i].attackCooldown =
                                 IF enemies[i].attackCooldown > frameAge
                                 THEN enemies[i].attackCooldown - frameAge ELSE 0
            /\ StepRan("move") /\ (isLocked \/ allowMouseDragFallback) =>
                  \/ player'.onGround /\ player'.vy = 0
                  \/ ~player'.onGround /\ player'.vy = player.vy - 30 * frameAge
            /\ StepRan("camera") =>
                  /\ camera'.x = player'.x /\ camera'.z = player'.z
                  /\ camera'.y = player'.y + 16000
            /\ last'.op = "frame"
            /\ UNCHANGED << shotAge, ammo, reserveAmmo, reloading, epoch, intervals,
                            isLocked, allowMouseDragFallback >>
      ]_vars

\* C19 witness: in the frame that ran last the player rose from the ground and
\* the enemy update saw the player up there.
C19_Witness ==
    /\ last.op = "frame"
    /\ tick.steps = << "move", "enemies", "camera", "render" >>
    /\ player.y > 120000
    /\ player.vy > 0
    /\ tick.seen.y = player.y

\* the step is a press of the jump key
JumpStep == last'.op = "jump" /\ frameAge' = frameAge

\* C20 as stated: a jump request sets the vertical velocity to 15 while the
\* grounded flag is true and changes nothing while it is false, and after an
\* accepted jump the grounded flag is false after the next movement tick.
C20_AsStated ==
    [][ /\ JumpStep =>
            IF player.onGround THEN player' = [player EXCEPT !.vy = 15000]
            ELSE player' = player
        /\ FrameStep /\ StepRan("move") /\ player.onGround /\ player.vy = 15000 =>
            ~player'.onGround
      ]_vars

\* w has the sign of v, or is 0, and is not larger in magnitude
TowardZero(v, w) ==
    /\ v >= 0 => 0 <= w /\ w <= v
    /\ v <= 0 => v <= w /\ w <= 0

\* C21 as stated: whatever the tick length, a movement tick with no movement
\* key held never flips the sign of a horizontal velocity component and never
\* increases its magnitude.
C21_AsStated ==
    [][ FrameStep /\ StepRan("move") /\ (isLocked \/ allowMouseDragFallback)
            /\ ~tick'.keys =>
            /\ TowardZero(player.vx, player'.vx)
            /\ TowardZero(player.vz, player'.vz)
      ]_vars

\* C22 as stated: the elapsed time a frame hands to the movement and to the
\* enemy update is capped, here at one second, however long ago the previous
\* frame ran.
C22_AsStated ==
    [][ FrameStep => tick'.delta <= 1000 ]_vars

\* the enemies created by the step
Spawned == {i \in 1..Len(enemies') : enemies'[i].mesh \notin MeshesOf(enemies)}

\* the step is a call of spawnEnemies that created enemies
SpawnStep == Spawned # {}

\* C23 as stated: every spawned enemy stands on the terrain, its y being the
\* height at the place it was put, also when it was pushed out of the
\* exclusion zone.
C23_AsStated ==
    \A i \in 1..Len(enemies) :
        enemies[i].spawn.y = getTerrainHeight(enemies[i].spawn.x, enemies[i].spawn.z)

\* C24: no enemy is put inside the exclusion zone, |x| >= 50 or |z| >= 50, and
\* an enemy whose sample fell inside the zone is put with |x| and |z| both in
\* [50, 250), each on the side of the origin its sample was on.
C24_OutsideExclusionZone ==
    \A i \in 1..Len(enemies) :
        LET at == enemies[i].spawn
        IN  /\ Abs(at.x) >= 500000 \/ Abs(at.z) >= 500000
            /\ Abs(at.sx) < 500000 /\ Abs(at.sz) < 500000 =>
                  /\ 500000 <= Abs(at.x) /\ Abs(at.x) < 2500000
                  /\ 500000 <= Abs(at.z) /\ Abs(at.z) < 2500000
                  /\ at.sx > 0 => at.x > 0
                  /\ at.sx < 0 => at.x < 0
                  /\ at.sz > 0 => at.z > 0
                  /\ at.sz < 0 => at.z < 0

\* C24 witness: a wave has put an enemy whose sample (30, -20) fell inside the
\* zone at (50, -249.9999).
C24_Witness ==
    /\ last.op = "wave"
    /\ \E i \in 1..Len(enemies) :
          /\ enemies[i].spawn.sx = 300000 /\ enemies[i].spawn.sz = -200000
          /\ enemies[i].spawn.x = 500000 /\ enemies[i].spawn.z = -2499999

\* C25 as stated: no enemy is created within the exclusion distance of the
\* place the player is at when it is created.
C25_AsStated ==
    [][ \A i \in Spawned :
            \/ Abs(enemies'[i].spawn.x - player'.x) >= 500000
            \/ Abs(enemies'[i].spawn.z - player'.z) >= 500000
      ]_vars

\* the times left of the pending reload timers, in the order they were set
ReloadTimes(tos) ==
    LET rs == SelectSeq(tos, IsReloadTimer) IN [i \in 1..Len(rs) |-> rs[i].in]

\* the times left of the pending death-respawn timers, in the order they were set
RespawnTimes(tos) ==
    LET rs == SelectSeq(tos, IsRespawnTimer) IN [i \in 1..Len(rs) |-> rs[i].in]

\* C26: a game reset leaves a reload in flight alone: reloading, the magazine,
\* the reserve and the reload timer with its time left are the same after the
\* reset; while reloading is true exactly one reload timer is pending, set for
\* 800 ms when the reload was accepted, and no shot is fired; the reload ends
\* when that timer has run out, topping the magazine up from the reserve.
C26_ResetKeepsReload ==
    /\ [](reloading <=> Len(ReloadTimes(timeouts)) = 1)
    /\ [][ \* the steps that touch the reload
            /\ ResetStep =>
                /\ reloading' = reloading
                /\ ammo' = ammo /\ reserveAmmo' = reserveAmmo
                /\ ReloadTimes(timeouts') = ReloadTimes(timeouts)
            /\ ~reloading /\ reloading' => ReloadTimes(timeouts') = << 800 >>
            /\ ShootStep /\ reloading => ammo' = ammo /\ last'.res \notin {"hit", "miss"}
            /\ reloading /\ ~reloading' =>
                /\ ReloadTimes(timeouts) = << 0 >>
                /\ ammo' = ammo + Min(30 - ammo, reserveAmmo)
                /\ reserveAmmo' = reserveAmmo - Min(30 - ammo, reserveAmmo)
          ]_vars

\* C26 witness: the game was restarted during the reload that emptied the
\* reserve, and that reload has completed.
C26_Witness ==
    /\ last.op = "reloadDone"
    /\ used.starts = 1
    /\ epoch >= 1
    /\ reserveAmmo = 0
    /\ ammo > 0
    /\ ~reloading

\* C27: a game reset, by a start request or by a death-respawn timer, cancels
\* no pending death-respawn timer and leaves its time unchanged; each of them
\* fires when its time has run out and resets the game in full, whatever the
\* player's health is by then.
C27_StaleRespawnResets ==
    [][ /\ ResetStep /\ ~RespawnStep => RespawnTimes(timeouts') = RespawnTimes(timeouts)
        /\ RespawnStep =>
            /\ RespawnTimes(timeouts) # << >>
            /\ RespawnTimes(timeouts)[1] = 0
            /\ RespawnTimes(timeouts') = Tail(RespawnTimes(timeouts))
            /\ hp' = 100
            /\ player'.x = 0 /\ player'.z = 0 /\ player'.y = 121000
            /\ Len(enemies') = 30
            /\ MeshesOf(enemies') \cap MeshesOf(enemies) = {}
      ]_vars

\* C27 witness: one raid has killed the player, and the game has been reset
\* by a second respawn timer that found the player alive in the new game.
C27_Witness ==
    /\ last.op = "respawn"
    /\ used.raids = 1
    /\ used.starts = 0
    /\ epoch = 2
    /\ hp = 100

\* the enemy at index i has landed an attack in the step
Attacked(i) == enemies'[i].attackCooldown = enemies'[i].attackRate

\* C29: in every enemy update each enemy's cooldown goes down by the frame's
\* delta, not below 0, in range or not; an enemy lands an attack only if it is
\* one of those in melee range and its cooldown has run out, each attack
\* costing the player 10 health, and its cooldown is then its attack interval;
\* an enemy that attacks again has been handed at least its attack interval
\* of delta since its last attack.
C29_AttackCooldown ==
    [][ FrameStep /\ StepRan("enemies") /\ Len(enemies') = Len(enemies) =>
            /\ \A i \in 1..Len(enemies) :
                  /\ enemies'[i].attackCooldown >= 0
                  /\ ~Attacked(i) =>
                        enemies'[i].attackCooldown =
                            IF enemies[i].attackCooldown > frameAge
                            THEN enemies[i].attackCooldown - frameAge ELSE 0
                  /\ Attacked(i) =>
                        /\ i <= tick'.melee
                        /\ enemies[i].attackCooldown - frameAge <= 0
                        /\ enemies[i].sinceAttack + frameAge >= enemies[i].attackRate
                  /\ i <= tick'.melee /\ enemies[i].attackCooldown - frameAge <= 0 =>
                        Attacked(i)
            /\ LET n == Cardinality({i \in 1..Len(enemies) : Attacked(i)})
               IN  hp' = IF hp > 10 * n THEN hp - 10 * n ELSE 0
      ]_vars

\* C29 witness: the first enemy has attacked twice, the second time in a frame
\* half a second after the one before, and no other enemy has: the player has
\* lost 20 health to it and its cooldown is back at its attack interval.
C29_Witness ==
    /\ last.op = "frame"
    /\ last.res = "attacked"
    /\ tick.melee = 1
    /\ hp = 80
    /\ enemies[1].attackCooldown = enemies[1].attackRate
    /\ enemies[1].sinceAttack = 0
    /\ enemies[2].attackCooldown = 0
    /\ enemies[2].sinceAttack = enemies[2].attackRate
    /\ tick.delta = 500

\* C30 as stated: at the end of an enemy's pursuit/attack step its distance
\* from the player position the pass uses is at least
\* enemyRadius + playerRadius + 0.15 = 1.55, unless it coincides with the
\* player.
C30_AsStated ==
    [][ FrameStep /\ StepRan("enemies") /\ enemies # << >> =>
            tick'.chase.from = 0 \/ tick'.chase.to >= 15500
      ]_vars

\* the enemy with mesh m has no effect reversion pending
Settled(m) == \A i \in 1..Len(effects.pending) : effects.pending[i].mesh # m

\* C28 as stated: transient effects on an enemy do not interact; once all the
\* pending reversions of a live enemy have run, its body colour and its scale
\* are the base values again
C28_AsStated ==
    \A i \in 1..Len(enemies) :
        Settled(enemies[i].mesh) => LookOf(effects, enemies[i].mesh) = BaseLook

\* the rounds the player holds, in the magazine and in reserve
Rounds == ammo + reserveAmmo

\* C32: ammunition is never created. The player starts with 120 rounds, every
\* accepted shot takes exactly one round away and no other step (reload,
\* death, reset) changes the number of rounds held, so rounds held plus
\* accepted shots is 120 in every state; a reset leaves magazine and reserve
\* alone, and with no round left (120 accepted shots) no shot is accepted
C32_AmmoConserved ==
    /\ [](Rounds \in 0..120 /\ ammo >= 0 /\ reserveAmmo >= 0)
    /\ [][ /\ Rounds' = IF ShotFired THEN Rounds - 1 ELSE Rounds
           /\ ResetStep => ammo' = ammo /\ reserveAmmo' = reserveAmmo
           /\ Rounds = 0 => ~ShotFired
         ]_vars

\* every round has been fired, the player has died and the game has been
\* reset since, and the click after that was turned down
C32_Witness ==
    /\ Rounds = 0
    /\ epoch >= 2
    /\ hp = 100
    /\ last.op = "shoot"
    /\ last.res = "rejected"

\* the enemies the frame found with no health left
Fallen == {i \in 1..Len(enemies) : enemies[i].hp <= 0}

\* the enemies within melee range whose cooldown runs out in a frame of
\* length delta, the fallen among them
Striking(k, delta) ==
    {i \in 1..Len(enemies) : i <= k /\ enemies[i].attackCooldown - delta <= 0}

\* C33: in a frame an enemy's pursuit/attack step runs before its death
\* check: the enemies in melee range whose cooldown has run out all damage the
\* player, those with health <= 0 included, the first enemy does its pursuit
\* step whether it has health left or not, and the enemies with health <= 0
\* are removed and counted as kills in that same frame
C33_DeadEnemyActs ==
    [][ FrameStep /\ StepRan("enemies") =>
            LET dealt == ApplyAttacks(hp, timeouts,
                                      Cardinality(Striking(tick'.melee, tick'.delta)))
                fallen == {enemies[i].mesh : i \in Fallen}
            IN  /\ hp' = dealt.hp
                /\ timeouts' = dealt.tos
                /\ kills' = kills + Cardinality(Fallen)
                /\ MeshesOf(enemies') = MeshesOf(enemies) \ fallen
                /\ enemies # << >> =>
                      tick'.chase.to = Pursued(tick'.chase.from, enemies[1].speed,
                                               tick'.delta)
      ]_vars

\* the frame that has just run removed the first enemy, shot dead before it,
\* and that enemy alone was in melee range and attacked: the enemy that is now
\* first has not attacked, and the player has lost health
C33_Witness ==
    /\ last.op = "frame"
    /\ last.res = "attacked"
    /\ tick.melee = 1
    /\ kills = 1
    /\ hp = 90
    /\ enemies[1].mesh = Mesh(0, 2)
    /\ enemies[1].attackCooldown = 0

\* C34: while look control is neither locked nor in fallback mode a frame
\* leaves the player's position, velocity and grounded flag alone, whatever
\* keys are held, but its enemy update runs all the same: it sees the player
\* where they stand, the first enemy does its pursuit step, cooldowns run
\* down, the enemies in range whose cooldown has run out damage the player,
\* and when that takes the last health a respawn is scheduled
C34_AiRunsWhileFrozen ==
    [][ FrameStep /\ ~isLocked /\ ~allowMouseDragFallback =>
            LET striking == Striking(tick'.melee, tick'.delta)
                dealt == ApplyAttacks(hp, timeouts, Cardinality(striking))
            IN  /\ player' = player
                /\ StepRan("move") /\ StepRan("enemies")
                /\ tick'.seen = Position(player)
                /\ tick'.chase.to = Pursued(tick'.chase.from, enemies[1].speed,
                                            tick'.delta)
                /\ Len(enemies') = Len(enemies)
                /\ \A i \in 1..Len(enemies) :
                      enemies'[i].attackCooldown =
                          IF i \in striking THEN enemies[i].attackRate
                          ELSE Max(0, enemies[i].attackCooldown - tick'.delta)
                /\ hp' = dealt.hp
                /\ timeouts' = dealt.tos
                /\ hp > 0 /\ hp' = 0 =>
                      timeouts'[Len(timeouts) + 1] = [kind |-> "respawn", in |-> 2000]
      ]_vars

\* the game has not been started, a frame has run with a movement key held,
\* the player is where they began, and the enemies have taken the player's
\* last health in that frame, so a respawn is pending
C34_Witness ==
    /\ used.starts = 0
    /\ ~isLocked /\ ~allowMouseDragFallback
    /\ last.op = "frame"
    /\ last.res = "attacked"
    /\ tick.keys
    /\ player = InitPlayer
    /\ hp = 0
    /\ RespawnsPending # {}

\* C31 as stated: the separation pass keeps enemies from overlapping. A pair
\* closer than r_a + r_b + 0.05 and not on the same spot is pushed apart by
\* equal and opposite displacements, so that it is exactly that far apart and
\* its midpoint has not moved; a pair on the same spot is left alone; and when
\* the pass has gone through all pairs no two enemies that are not on the same
\* spot are closer than r_a + r_b + 0.05
C31_AsStated ==
    [][ FrameStep /\ StepRan("enemies") =>
            LET from == tick'.sep.from
                to == tick'.sep.to
            IN  /\ Len(from) = 2 /\ from[1] # from[2]
                             /\ Abs(from[1] - from[2]) < 165000 =>
                      /\ Abs(to[1] - to[2]) = 165000
                      /\ to[1] + to[2] = from[1] + from[2]
                /\ Len(from) = 2 /\ from[1] = from[2] => to = from
                /\ \A i, j \in 1..Len(to) :
                      to[i] # to[j] => Abs(to[i] - to[j]) >= 165000
      ]_vars

====
